---------------------------- MODULE Spec2Model ----------------------------
(***************************************************************************)
(* Queue and playback scheduler of argondjbot.py (class Playlist).         *)
(*                                                                         *)
(* The program runs on one asyncio event loop.  Playlist.play, skip,       *)
(* insert, delete and deleteall are synchronous: each is one atomic        *)
(* action.  Playlist._play is a coroutine wrapped in a Task by             *)
(* asyncio.ensure_future: the Task is only scheduled by play(), its body   *)
(* runs later, one action per stretch of code between two awaits.          *)
(* Task.cancel() only requests cancellation; the CancelledError is         *)
(* delivered at the Task's next step, which then runs no code of _play.    *)
(***************************************************************************)
EXTENDS Integers, Sequences, FiniteSets, TLC

\* ------------------------------------------------------------------ bounds
MaxVideos == 3      \* entries inserted over a run
MaxTasks == 3       \* _play tasks created over a run

\* Video.DELAY, seconds added to every video's raw duration
DELAY == 4
\* the raw duration (seconds) of the i-th video queued in this model: a video of
\* DELAY seconds, then a live stream ("P0D"), and so on in turn
RawDuration(i) == IF i % 2 = 1 THEN DELAY ELSE 0
\* the clock is read every Quantum seconds
Quantum == DELAY

\* Python's None and a value that is not None: a sequence of at most one element
None == <<>>
Some(x) == <<x>>
Val(o) == o[1]

VARIABLES
    waiting,        \* Playlist.waiting: list of (video, player)
    playing_task,   \* Playlist.playing_task: None or a task id
    playing_video,  \* Playlist.playing_video: None or an entry
    playing_until,  \* Playlist.playing_until: None or a time
    now,            \* time.time(), in seconds
    tasks,          \* the _play Tasks ever created: id -> frame
    ntasks,         \* number of Tasks created
    nvideos,        \* number of entries created
    announced,      \* ids of the entries passed to room.send, in call order
    closed,         \* whether the callers have stopped calling, and what was pending then
    handler,        \* the !skip / !videoskip / !dramaticskip handler in flight
    last            \* the last action taken and what it returned

vars == <<waiting, playing_task, playing_video, playing_until, now, tasks,
          ntasks, nvideos, announced, closed, handler, last>>

TaskIds == 1..MaxTasks

\* ----------------------------------------------------------------- helpers
Min(a, b) == IF a < b THEN a ELSE b
Max(a, b) == IF a > b THEN a ELSE b

\* Video.duration = raw_duration + DELAY  (Video.__init__)
duration(e) == e.raw + DELAY

\* a (video, player) element as insert() builds it
Entry(i, r) == [id |-> i, raw |-> r]

\* Python list.pop(i) / del for a valid 0-based index i
RemoveAt(s, i) == [k \in 1..(Len(s) - 1) |-> IF k <= i THEN s[k] ELSE s[k + 1]]

\* Python list.insert(i, x) for i >= 0: positions past the end append
InsertAt(s, i, x) ==
    LET j == Min(i, Len(s))
    IN [k \in 1..(Len(s) + 1) |->
          IF k <= j THEN s[k] ELSE IF k = j + 1 THEN x ELSE s[k - 1]]

\* s[:p] with a stop that is one too far
PySliceToOneMore(s, p) ==
    LET stop == IF p < 0 THEN Max(Len(s) + p + 1, 0) ELSE Min(p + 1, Len(s))
    IN SubSeq(s, 1, stop)

\* Python s[:p]: a negative stop counts from the end, both ends are clamped
PySliceTo(s, p) ==
    LET stop == IF p < 0 THEN Max(Len(s) + p, 0) ELSE Min(p, Len(s))
    IN SubSeq(s, 1, stop)

RECURSIVE SumDuration(_)
SumDuration(s) == IF s = <<>> THEN 0 ELSE duration(Head(s)) + SumDuration(Tail(s))

Ids(s) == [k \in 1..Len(s) |-> s[k].id]

\* --------------------------------------------------------------- the tasks
\* pc: "none" not created, "start" scheduled by ensure_future and not yet run,
\* "send" suspended in `await room.send(text)`, "sleep" suspended in
\* `await asyncio.sleep(duration)`, "cancelled" Task.cancel() was called and the
\* CancelledError is not yet thrown into the coroutine, "done" finished (returned,
\* or ended by the CancelledError).  dur is the local `duration` while it is
\* still read, wake the time asyncio.sleep ends.
NoTask == [pc |-> "none", dur |-> 0, wake |-> 0]
NewTask == [pc |-> "start", dur |-> 0, wake |-> 0]
CancelledTask == [pc |-> "cancelled", dur |-> 0, wake |-> 0]
DoneTask == [pc |-> "done", dur |-> 0, wake |-> 0]

\* Task.done()
TaskDone(ts, t) == ts[Val(t)].pc = "done"

\* a Task that can still run code of _play
Live(t) == tasks[t].pc \in {"start", "send", "sleep"}

\* ------------------------------------------------------------ playlist info
\* Playlist.playing() on given fields
playingOf(pt, ts) == pt # None /\ ~TaskDone(ts, pt)
playing == playingOf(playing_task, tasks)

empty == waiting = <<>>
len == Len(waiting)
next == IF waiting # <<>> THEN Some(waiting[1]) ELSE None


\* Playlist.get(i)
get(i) ==
    IF i = -1 /\ playing THEN playing_video
    ELSE LET j == IF i < 0 THEN Len(waiting) + i ELSE i
         IN IF j >= 0 /\ j < Len(waiting) THEN Some(waiting[j + 1]) ELSE None

\* Playlist.items(): enumerate(self.waiting)
items == [k \in 1..Len(waiting) |-> <<k - 1, waiting[k]>>]

\* Playlist.playtime_left() at clock value t, in seconds
playtime_left_at(until, t) ==
    IF until # None /\ Val(until) # 0 THEN Val(until) - t ELSE 0
playtime_left == playtime_left_at(playing_until, now)

\* the videos playtime_until(position) sums over
videos_until(w, position) ==
    IF position = None THEN w ELSE PySliceTo(w, Val(position))

\* Playlist.playtime_until(position)
playtime_until(position) == playtime_left + SumDuration(videos_until(waiting, position))

\* --------------------------------------------------------- history records
\* the action taken last and, for a call, the value it returned
Did(op, ret) == [op |-> op, ret |-> ret]

\* the callers are still calling
Open == ~closed.on

\* ------------------------------------------------------------ play and skip
\* play() without its test of playing()
PlayGuardNoPlayingTest(w, pt, ts) == w # <<>>

\* play() without its test of the list
PlayGuardNoWaitingTest(w, pt, ts) == ~playingOf(pt, ts)

\* the condition of play(): `self.waiting and not self.playing()`
PlayGuard(w, pt, ts) == w # <<>> /\ ~playingOf(pt, ts)

\* skip() sparing a process whose sleep has already ended
SkipGuardUnlessDue(pt, ts) ==
    /\ pt # None
    /\ ~TaskDone(ts, pt)
    /\ ~(ts[Val(pt)].pc = "sleep" /\ now >= ts[Val(pt)].wake)

\* the condition of skip(): `self.playing_task and not self.playing_task.done()`
SkipGuard(pt, ts) == pt # None /\ ~TaskDone(ts, pt)

\* the body of play() run on the fields (pt, ts); op and arg name the caller
Launch(pt, ts, op) ==
    IF PlayGuard(waiting, pt, ts)
    THEN /\ ntasks < MaxTasks
         /\ playing_task' = Some(ntasks + 1)
         /\ tasks' = [ts EXCEPT ![ntasks + 1] = NewTask]
         /\ ntasks' = ntasks + 1
         /\ last' = Did(op, Some(TRUE))
    ELSE /\ playing_task' = pt
         /\ tasks' = ts
         /\ ntasks' = ntasks
         /\ last' = Did(op, Some(FALSE))

\* Playlist.play(room)
play ==
    /\ Open
    /\ Launch(playing_task, tasks, "play")
    /\ UNCHANGED <<waiting, playing_video, playing_until, now, nvideos, announced, closed, handler>>

\* Playlist.skip(room)
skip ==
    /\ Open
    /\ IF SkipGuard(playing_task, tasks)
       THEN Launch(None, [tasks EXCEPT ![Val(playing_task)] = CancelledTask], "skip")
       ELSE Launch(playing_task, tasks, "skip")
    /\ UNCHANGED <<waiting, playing_video, playing_until, now, nvideos, announced, closed, handler>>

\* ------------------------------------------------------ the _play coroutine
\* _play returning without resetting playing_video
VideoAfterLoopKept(pv) == pv
\* playing_video after the loop of _play has ended
VideoAfterLoop(pv) == None
\* _play returning without resetting playing_until
UntilAfterLoopKept(pu) == pu
\* playing_until after the loop of _play has ended
UntilAfterLoop(pu) == None
\* playing_task after the loop of _play has ended
TaskAfterLoop(pt) == None

\* the deadline _play computes for the entry it pops at clock value t
Deadline(e, t) == t + duration(e)

\* _play from the head of its loop to its next await, or to its return
LoopHead(t) ==
    IF waiting # <<>>
    THEN /\ waiting' = Tail(waiting)
         /\ playing_video' = Some(Head(waiting))
         /\ playing_until' = Some(Deadline(Head(waiting), now))
         /\ announced' = Append(announced, Head(waiting).id)
         /\ tasks' = [tasks EXCEPT ![t] =
                        [pc |-> "send", dur |-> duration(Head(waiting)), wake |-> 0]]
         /\ UNCHANGED playing_task
    ELSE /\ playing_task' = TaskAfterLoop(playing_task)
         /\ playing_video' = VideoAfterLoop(playing_video)
         /\ playing_until' = UntilAfterLoop(playing_until)
         /\ tasks' = [tasks EXCEPT ![t] = DoneTask]
         /\ UNCHANGED <<waiting, announced>>

\* the first step of a Task: _play runs from its start
TaskStart(t) ==
    /\ tasks[t].pc = "start"
    /\ LoopHead(t)
    /\ last' = Did("start", None)
    /\ UNCHANGED <<now, ntasks, nvideos, closed, handler>>

\* `await room.send(text)` returns and `asyncio.sleep(duration)` is entered
TaskSent(t) ==
    /\ tasks[t].pc = "send"
    /\ tasks' = [tasks EXCEPT ![t] =
                   [pc |-> "sleep", dur |-> 0, wake |-> now + tasks[t].dur]]
    /\ last' = Did("sent", None)
    /\ UNCHANGED <<waiting, playing_task, playing_video, playing_until, now,
                   ntasks, nvideos, announced, closed, handler>>

\* the time a sleeping task has to reach before it resumes
WakeTime(t) == tasks[t].wake

\* `await asyncio.sleep(duration)` returns and the loop goes round
TaskWake(t) ==
    /\ tasks[t].pc = "sleep"
    /\ now >= WakeTime(t)
    /\ LoopHead(t)
    /\ last' = Did("wake", None)
    /\ UNCHANGED <<now, ntasks, nvideos, closed, handler>>

\* a cancelled _play that resets the fields on its way out, as the code after
\* its loop does
TaskCancelledClears(t) ==
    /\ tasks[t].pc = "cancelled"
    /\ tasks' = [tasks EXCEPT ![t] = DoneTask]
    /\ playing_task' = None
    /\ playing_video' = None
    /\ playing_until' = None
    /\ last' = Did("cancelled", None)
    /\ UNCHANGED <<waiting, now, ntasks, nvideos, announced, closed, handler>>

\* the CancelledError requested by Task.cancel() is thrown into the coroutine
TaskCancelled(t) ==
    /\ tasks[t].pc = "cancelled"
    /\ tasks' = [tasks EXCEPT ![t] = DoneTask]
    /\ last' = Did("cancelled", None)
    /\ UNCHANGED <<waiting, playing_task, playing_video, playing_until, now,
                   ntasks, nvideos, announced, closed, handler>>

\* ------------------------------------------------- commands modifying the list
\* the positions the callers pass in this model
Positions == -1..MaxVideos

\* insert() putting an entry given without `before` at the front
insertSeqPrepends(w, e, before) ==
    IF before = None THEN <<e>> \o w
    ELSE IF Val(before) >= 0 THEN InsertAt(w, Val(before), e)
    ELSE w

\* insert() without its test of a negative `before`: list.insert counts a
\* negative position from the end
insertSeqNoNegativeTest(w, e, before) ==
    IF before = None THEN Append(w, e)
    ELSE InsertAt(w, IF Val(before) >= 0 THEN Val(before)
                     ELSE Max(Len(w) + Val(before), 0), e)

\* waiting after insert(video, player, before)
insertSeq(w, e, before) ==
    IF before = None THEN Append(w, e)
    ELSE IF Val(before) >= 0 THEN InsertAt(w, Val(before), e)
    ELSE w

\* insert() returning `before` as it was passed
insertRetUnclamped(w, before) ==
    IF before = None THEN Some(Len(w))
    ELSE IF Val(before) >= 0 THEN before
    ELSE None

\* the value insert(video, player, before) returns; w is the list before the call
insertRet(w, before) ==
    IF before = None THEN Some(Len(w))
    ELSE IF Val(before) >= 0 THEN Some(Min(Val(before), (Len(w) + 1) - 1))
    ELSE None

\* Playlist.insert(video, player, before)
insert(before) ==
    /\ Open
    /\ nvideos < MaxVideos
    /\ waiting' = insertSeq(waiting, Entry(nvideos + 1, RawDuration(nvideos + 1)), before)
    /\ nvideos' = nvideos + 1
    /\ last' = Did("insert", insertRet(waiting, before))
    /\ UNCHANGED <<playing_task, playing_video, playing_until, now, tasks, ntasks,
                   announced, closed, handler>>

\* delete() without its test of a negative position: list.pop counts a
\* negative position from the end
deleteSeqNoNegativeTest(w, position) ==
    LET j == IF position < 0 THEN Len(w) + position ELSE position
    IN IF j >= 0 /\ j < Len(w) THEN RemoveAt(w, j) ELSE w

\* waiting after delete(position)
deleteSeq(w, position) ==
    IF position < 0 THEN w
    ELSE IF position < Len(w) THEN RemoveAt(w, position)
    ELSE w

\* the value delete(position) returns
deleteRet(w, position) ==
    IF position < 0 THEN None
    ELSE IF position < Len(w) THEN Some(w[position + 1])
    ELSE None

\* Playlist.delete(position)
delete(position) ==
    /\ Open
    /\ waiting' = deleteSeq(waiting, position)
    /\ last' = Did("delete", deleteRet(waiting, position))
    /\ UNCHANGED <<playing_task, playing_video, playing_until, now, tasks, ntasks,
                   nvideos, announced, closed, handler>>

\* deleteall() sparing the front of the list
deleteallSeqButFront(w) == IF w = <<>> THEN w ELSE <<Head(w)>>

\* waiting after deleteall()
deleteallSeq(w) == <<>>

\* Playlist.deleteall()
deleteall ==
    /\ Open
    /\ waiting' = deleteallSeq(waiting)
    /\ last' = Did("deleteall", None)
    /\ UNCHANGED <<playing_task, playing_video, playing_until, now, tasks, ntasks,
                   nvideos, announced, closed, handler>>

\* ----------------------------------------------------- the skipping commands
\* pc: "idle" no handler is running, "fetch" suspended in
\* `await self.yt.get_videos([vid])`, "reply" suspended in
\* `await msg.reply("Skipping to next video")`.  filler is the id of the entry
\* the handler inserted (0: none), was is playing_video as the handler saw it
\* when it inserted.
IdleHandler == [pc |-> "idle", filler |-> 0, was |-> None]

\* command_skip up to its first await: with nothing pending it fetches a
\* filler, otherwise it goes on to the reply
command_skip ==
    /\ Open
    /\ handler.pc = "idle"
    /\ handler' = [pc |-> IF empty THEN "fetch" ELSE "reply", filler |-> 0, was |-> None]
    /\ last' = Did("command_skip", None)
    /\ UNCHANGED <<waiting, playing_task, playing_video, playing_until, now, tasks,
                   ntasks, nvideos, announced, closed>>

\* command_vskip and command_dskip up to their first await
command_vskip ==
    /\ Open
    /\ handler.pc = "idle"
    /\ handler' = [pc |-> "fetch", filler |-> 0, was |-> None]
    /\ last' = Did("command_vskip", None)
    /\ UNCHANGED <<waiting, playing_task, playing_video, playing_until, now, tasks,
                   ntasks, nvideos, announced, closed>>

\* get_videos has returned: insert(video, nick, before=0), then the reply is sent
CommandInsert ==
    /\ handler.pc = "fetch"
    /\ nvideos < MaxVideos
    /\ waiting' = insertSeq(waiting, Entry(nvideos + 1, RawDuration(nvideos + 1)), Some(0))
    /\ nvideos' = nvideos + 1
    /\ handler' = [pc |-> "reply", filler |-> nvideos + 1, was |-> playing_video]
    /\ last' = Did("filler", insertRet(waiting, Some(0)))
    /\ UNCHANGED <<playing_task, playing_video, playing_until, now, tasks, ntasks,
                   announced, closed>>

\* msg.reply has returned: self.playlist.skip(room)
CommandSkip ==
    /\ handler.pc = "reply"
    /\ IF SkipGuard(playing_task, tasks)
       THEN Launch(None, [tasks EXCEPT ![Val(playing_task)] = CancelledTask], "replied")
       ELSE Launch(playing_task, tasks, "replied")
    /\ handler' = IdleHandler
    /\ UNCHANGED <<waiting, playing_video, playing_until, now, nvideos, announced, closed>>

\* ------------------------------------------------------------ the environment
\* the clock is followed while something lies ahead of it: the deadline of the
\* entry popped last, or the time a sleeping task waits for
TimeWanted ==
    \/ playing_until # None /\ now < Val(playing_until)
    \/ \E t \in TaskIds : tasks[t].pc = "sleep" /\ now < tasks[t].wake

\* time passes
Tick ==
    /\ TimeWanted
    /\ now' = now + Quantum
    /\ last' = Did("tick", None)
    /\ UNCHANGED <<waiting, playing_task, playing_video, playing_until, tasks,
                   ntasks, nvideos, announced, closed, handler>>

\* the callers issue no further operation from here on
Close ==
    /\ Open
    /\ closed' = [on |-> TRUE, playing |-> playing, pending |-> Len(waiting),
                  expect |-> announced \o Ids(waiting)]
    /\ last' = Did("close", None)
    /\ UNCHANGED <<waiting, playing_task, playing_video, playing_until, now, tasks,
                   ntasks, nvideos, announced, handler>>

\* --------------------------------------------------------- the specification
\* Playlist.__init__
Init ==
    /\ waiting = <<>>
    /\ playing_task = None
    /\ playing_video = None
    /\ playing_until = None
    /\ now = 0
    /\ tasks = [t \in TaskIds |-> NoTask]
    /\ ntasks = 0
    /\ nvideos = 0
    /\ announced = <<>>
    /\ closed = [on |-> FALSE, playing |-> FALSE, pending |-> 0, expect |-> <<>>]
    /\ handler = IdleHandler
    /\ last = Did("init", None)

TaskStep == \E t \in TaskIds : TaskStart(t) \/ TaskSent(t) \/ TaskWake(t) \/ TaskCancelled(t)

Next ==
    \/ play
    \/ skip
    \/ \E before \in {None} \cup {Some(p) : p \in Positions} : insert(before)
    \/ \E position \in Positions : delete(position)
    \/ deleteall
    \/ TaskStep
    \/ Tick

Spec == Init /\ [][Next]_vars

\* the same program with callers that may stop calling; the event loop runs
\* every ready Task and the clock does not stop
NextClosing == Next \/ Close

FairSpec == Init /\ [][NextClosing]_vars /\ WF_vars(TaskStep) /\ WF_vars(Tick)

\* the same program with callers that queue entries only at the end and never
\* delete
EnqueueNext ==
    \/ play
    \/ skip
    \/ insert(None)
    \/ TaskStep
    \/ Tick

EnqueueSpec == Init /\ [][EnqueueNext]_vars

\* the same program with callers that start every playback with skip(), queue
\* entries only at the end and never delete
SkipNext ==
    \/ skip
    \/ insert(None)
    \/ TaskStep
    \/ Tick

SkipSpec == Init /\ [][SkipNext]_vars

\* the program with one !skip, !videoskip or !dramaticskip handler at a time,
\* beside callers that queue entries at the end and start the playback
CommandNext ==
    \/ play
    \/ insert(None)
    \/ TaskStep
    \/ Tick
    \/ command_skip
    \/ command_vskip
    \/ CommandInsert
    \/ CommandSkip

CommandSpec == Init /\ [][CommandNext]_vars

\* ------------------------------------------------------------------ claims
\* the tasks that can still run code of _play
LiveTasks == {t \in TaskIds : Live(t)}

\* C1: at most one background playback process is active at any time, the
\* active one is the one playing_task names, and a play() call made while
\* playing launches nothing and leaves the active process as it is.
C1_AtMostOnePlayback ==
    /\ [](/\ Cardinality(LiveTasks) <= 1
          /\ \A t \in LiveTasks : playing_task = Some(t))
    /\ [][(last'.op = "play" /\ playing) =>
            (playing_task' = playing_task /\ tasks' = tasks /\ ntasks' = ntasks)]_vars

\* play() was called while a process launched by an earlier skip() was active
\* and entries were pending
C1_Witness ==
    /\ last.op = "play"
    /\ last.ret = Some(FALSE)
    /\ playing
    /\ ntasks >= 2
    /\ waiting # <<>>

\* the process playing_task names is waiting out the entry in playing_video
WaitingOut ==
    /\ playing
    /\ playing_video # None
    /\ tasks[Val(playing_task)].pc = "sleep"

\* C2: when skip() is called while playing (the process waiting out its entry)
\* with entries pending, then on its return now_playing is the entry that was
\* pending[0] and that entry has left pending.
C2_SkipAdvancesOnReturn ==
    [][(last'.op = "skip" /\ WaitingOut /\ waiting # <<>>) =>
         (playing_video' = Some(Head(waiting)) /\ waiting' = Tail(waiting))]_vars

\* C3: when play() is called while idle with entries pending, then on its
\* return the former pending[0] is popped and is now_playing, the deadline is
\* the current time plus its duration, and a process is active.
C3_StartPopsOnReturn ==
    [][(last'.op = "play" /\ ~playing /\ waiting # <<>>) =>
         /\ waiting' = Tail(waiting)
         /\ playing_video' = Some(Head(waiting))
         /\ playing_until' = Some(now + duration(Head(waiting)))
         /\ playing']_vars

\* C4: now_playing holds an entry if and only if a playback process is active.
C4_NowPlayingIffActive == (playing_video # None) <=> playing

\* nothing is left of a playback: no process, no entry, no deadline
Drained ==
    /\ LiveTasks = {}
    /\ playing_task = None
    /\ waiting = <<>>
    /\ playing_video = None
    /\ playing_until = None

\* C5: once the callers have stopped calling while a playback process is
\* active, every pending entry is eventually popped and announced in turn and
\* the scheduler ends idle with pending, now_playing and deadline cleared.
C5_DrainsToIdle ==
    [](closed.playing => <>(Drained /\ announced = closed.expect))

\* the callers stopped with a process active and two entries pending, and the
\* playback has drained
C5_Witness ==
    /\ closed.playing
    /\ closed.pending >= 2
    /\ Drained
    /\ announced = closed.expect

\* C6: playtime_left() is max(deadline - now, 0) while something is playing and
\* 0 otherwise, and neither it nor playtime_until(position) is ever negative.
C6_TimeLeftClamped ==
    /\ playtime_left =
         (IF playing /\ playing_until # None THEN Max(Val(playing_until) - now, 0) ELSE 0)
    /\ \A p \in (-1)..(MaxVideos + 1) : playtime_until(Some(p)) >= 0
    /\ playtime_until(None) >= 0

\* C7: get(-1) is now_playing while playing and absent otherwise, get(p) for
\* p >= 0 is pending[p] or absent past the end, and every other negative
\* position is absent.
C7_GetByPosition ==
    \A i \in (-MaxVideos - 1)..(MaxVideos + 1) :
        get(i) = IF i = -1 THEN (IF playing THEN playing_video ELSE None)
                 ELSE IF i >= 0 /\ i < Len(waiting) THEN Some(waiting[i + 1])
                 ELSE None

\* C8: playtime_until(-1) is playtime_left() alone, whatever is pending.
C8_EtaOfNowPlaying == playtime_until(Some(-1)) = playtime_left

\* the scheduled durations of the first n entries of w, added up
RECURSIVE SumFirst(_, _)
SumFirst(w, n) == IF n = 0 THEN 0 ELSE SumFirst(w, n - 1) + w[n].raw + DELAY

\* C9: for p >= 0, playtime_until(p) is playtime_left() plus the scheduled
\* durations of pending[0:p] (of all of pending when p is past its end), and
\* playtime_until(None) is playtime_left() plus those of all of pending, at
\* every clock value and for every content of the queue.
C9_EtaIsLeftPlusPrefix ==
    /\ \A p \in 0..(MaxVideos + 1) :
         playtime_until(Some(p)) =
            playtime_left + SumFirst(waiting, Min(p, Len(waiting)))
    /\ playtime_until(None) =
            playtime_left + SumFirst(waiting, Len(waiting))

\* time has passed on a playing entry with two entries pending behind it
C9_Witness ==
    /\ last.op = "tick"
    /\ playing
    /\ playing_until # None
    /\ playtime_left > 0
    /\ Len(waiting) >= 2

\* C10: insert, delete and deleteall leave now_playing, the deadline and the
\* process as they are; deleteall leaves pending empty; and a process waiting
\* out an entry goes on only once that entry's deadline is reached, going idle
\* then if nothing is pending.
C10_MutationsKeepNowPlaying ==
    [][/\ (last'.op \in {"insert", "delete", "deleteall"}) =>
            UNCHANGED <<playing_video, playing_until, playing_task, tasks>>
       /\ (last'.op = "deleteall") => (waiting' = <<>>)
       /\ (last'.op = "wake") =>
            /\ playing_until # None
            /\ now >= Val(playing_until)
            /\ (waiting = <<>>) => (~playing' /\ playing_video' = None)]_vars

\* deleteall() has just run while the process was waiting out an entry
C10_Witness ==
    /\ last.op = "deleteall"
    /\ WaitingOut
    /\ nvideos >= 2

\* C11: play() called while a process is active or while pending is empty
\* returns False and leaves pending, now_playing, the deadline, the handle and
\* every process as they are (an idle scheduler with nothing pending stays
\* idle); play() returns True only when it launches a process.
C11_StartIsNoOp ==
    [][(last'.op = "play") =>
         IF playing \/ waiting = <<>>
         THEN /\ last'.ret = Some(FALSE)
              /\ UNCHANGED <<waiting, playing_video, playing_until, playing_task,
                             tasks, ntasks>>
              /\ playing' = playing
         ELSE /\ last'.ret = Some(TRUE)
              /\ ntasks' = ntasks + 1
              /\ tasks[ntasks'].pc = "none"
              /\ tasks'[ntasks'].pc = "start"
              /\ playing_task' = Some(ntasks')]_vars

\* play() was called on a scheduler gone idle after a playback, nothing pending
C11_Witness ==
    /\ last.op = "play"
    /\ last.ret = Some(FALSE)
    /\ ~playing
    /\ waiting = <<>>
    /\ announced # <<>>

\* an entry that is in no list, to try insert() with
Probe == Entry(0, 0)

\* C12: insert() without `before` appends and returns the old length;
\* insert() with before = N >= 0 puts the new entry at index min(N, old length)
\* and returns that index, which is new length - 1 when N is past the end; the
\* other entries keep their relative order, and the entry sits at the returned
\* index right after the call.
C12_InsertReturnsIndex ==
    /\ [](\A before \in {None} \cup {Some(n) : n \in 0..(MaxVideos + 1)} :
            LET w2 == insertSeq(waiting, Probe, before)
                r == insertRet(waiting, before)
                at == IF before = None THEN Len(waiting)
                      ELSE Min(Val(before), Len(waiting))
            IN /\ r = Some(at)
               /\ Len(w2) = Len(waiting) + 1
               /\ w2[at + 1] = Probe
               /\ \A k \in 1..Len(waiting) :
                      IF k <= at THEN w2[k] = waiting[k] ELSE w2[k + 1] = waiting[k]
               /\ (before = None \/ Val(before) >= Len(waiting)) => at = Len(w2) - 1)
    /\ [][(last'.op = "insert" /\ last'.ret # None) =>
            /\ Val(last'.ret) \in 0..(Len(waiting') - 1)
            /\ waiting'[Val(last'.ret) + 1].id = nvideos'
            /\ RemoveAt(waiting', Val(last'.ret)) = waiting]_vars

\* the third entry was inserted between the two that were pending
C12_Witness ==
    /\ last.op = "insert"
    /\ last.ret = Some(1)
    /\ Len(waiting) = 3
    /\ waiting[2].id = nvideos

\* C13: delete(p) with p negative or p >= length returns None and leaves
\* pending as it is; delete(p) with a valid p returns pending[p] and removes
\* exactly that entry: the entries before it stay, the entries after it move
\* down by one.
C13_DeleteByPosition ==
    /\ [](\A p \in (-MaxVideos - 1)..(MaxVideos + 1) :
            LET w2 == deleteSeq(waiting, p)
                r == deleteRet(waiting, p)
            IN IF p < 0 \/ p >= Len(waiting)
               THEN r = None /\ w2 = waiting
               ELSE /\ r = Some(waiting[p + 1])
                    /\ Len(w2) = Len(waiting) - 1
                    /\ \A k \in 1..Len(w2) :
                           w2[k] = IF k <= p THEN waiting[k] ELSE waiting[k + 1])
    /\ [][(last'.op = "delete") =>
            IF last'.ret = None THEN waiting' = waiting
            ELSE /\ Len(waiting') = Len(waiting) - 1
                 /\ \E k \in 1..Len(waiting) :
                        /\ waiting[k] = Val(last'.ret)
                        /\ waiting' = SubSeq(waiting, 1, k - 1)
                                          \o SubSeq(waiting, k + 1, Len(waiting))]_vars

\* the middle one of three pending entries was deleted
C13_Witness ==
    /\ last.op = "delete"
    /\ last.ret # None
    /\ Val(last.ret).id = 2
    /\ Ids(waiting) = <<1, 3>>

\* C14: insert() with a negative `before` returns None and changes nothing:
\* pending, now_playing, the deadline, the handle and every process stay as
\* they are.
C14_NegativeInsertRejected ==
    /\ [](\A n \in (-MaxVideos - 1)..(-1) :
            /\ insertRet(waiting, Some(n)) = None
            /\ insertSeq(waiting, Probe, Some(n)) = waiting)
    /\ [][(last'.op = "insert" /\ last'.ret = None) =>
            UNCHANGED <<waiting, playing_video, playing_until, playing_task,
                        tasks, ntasks, announced>>]_vars

\* insert() with a negative position was called while an entry was playing and
\* another was pending
C14_Witness ==
    /\ last.op = "insert"
    /\ last.ret = None
    /\ WaitingOut
    /\ waiting # <<>>

\* C15: when entries are only ever appended (no insert at a position, no
\* delete, no deleteall), items() lists the pending entries in the order of
\* their insert() calls under the indices 0, 1, ..., and the entries are
\* announced in that same order, whether or not a process is running while
\* they are appended: what was announced, followed by what is pending, is the
\* order of the calls.
C15_FifoOrder ==
    /\ announced \o [k \in 1..Len(items) |-> items[k][2].id] = [k \in 1..nvideos |-> k]
    /\ \A k \in 1..Len(items) : items[k][1] = k - 1

\* an entry was appended while a process was waiting out the second entry it
\* had announced
C15_Witness ==
    /\ last.op = "insert"
    /\ WaitingOut
    /\ Len(announced) >= 2
    /\ waiting # <<>>

\* C16: in every reachable state now_playing is set exactly when the deadline
\* is set.
C16_VideoIffUntil == (playing_video # None) <=> (playing_until # None)

\* a process has announced an entry, waited it out and returned, which cleared
\* both fields
C16_Witness ==
    /\ last.op = "wake"
    /\ announced # <<>>
    /\ playing_video = None
    /\ playing_until = None

\* C17: skip() advances by exactly one entry wherever the process stands when
\* it is called: about to resume from a sleep that has ended, just resumed and
\* on to the next entry, or already returned.  The skip step itself pops
\* nothing and cancels the process if one is active; with entries pending it
\* launches exactly one new process, whose first step pops exactly the front
\* entry into now_playing, and with nothing pending it launches nothing and
\* the scheduler is idle; the cancelled process pops nothing any more.
C17_SkipRaceAdvancesOnce ==
    [][/\ (last'.op = "skip") =>
            /\ UNCHANGED <<waiting, playing_video, playing_until, announced>>
            /\ SkipGuard(playing_task, tasks) =>
                   tasks'[Val(playing_task)].pc = "cancelled"
            /\ IF waiting # <<>>
               THEN /\ ntasks' = ntasks + 1
                    /\ playing_task' = Some(ntasks')
                    /\ tasks'[ntasks'].pc = "start"
                    /\ LiveTasks' = {ntasks'}
               ELSE /\ ntasks' = ntasks
                    /\ ~playing'
                    /\ LiveTasks' = {}
       /\ (last'.op = "start" /\ waiting # <<>>) =>
            /\ waiting' = Tail(waiting)
            /\ playing_video' = Some(Head(waiting))
            /\ announced' = Append(announced, Head(waiting).id)
            /\ LiveTasks' = LiveTasks
       /\ (last'.op = "cancelled") =>
            UNCHANGED <<waiting, playing_video, playing_until, playing_task,
                        announced>>]_vars

\* skip() was called after the process had waited out its last entry and
\* returned, with an entry queued since: it launched a process
C17_Witness ==
    /\ last.op = "skip"
    /\ last.ret = Some(TRUE)
    /\ announced # <<>>
    /\ playing_video = None
    /\ \A t \in TaskIds : tasks[t].pc # "cancelled"

\* C18: a process that skip() has cancelled pops no entry, announces nothing
\* and writes neither now_playing nor the deadline nor the handle any more: all
\* it does is end, and its end leaves the handle, now_playing and the deadline
\* of the process started after it as they are.  The handle never names it
\* again, and a process that has ended does nothing further.
C18_CancelledWritesNothing ==
    /\ [](\A t \in TaskIds :
            tasks[t].pc \in {"cancelled", "done"} => playing_task # Some(t))
    /\ [][\A t \in TaskIds :
            /\ (tasks[t].pc = "cancelled") =>
                  /\ tasks'[t].pc \in {"cancelled", "done"}
                  /\ (tasks'[t].pc = "done") =>
                        /\ UNCHANGED <<waiting, playing_video, playing_until,
                                       playing_task, announced>>
                        /\ \A u \in TaskIds \ {t} : tasks'[u] = tasks[u]
            /\ (tasks[t].pc = "done") => tasks'[t].pc = "done"
            /\ (last'.op = "skip" /\ Live(t)) => tasks'[t].pc = "cancelled"]_vars

\* the cancelled process has ended while the process started after it was
\* waiting out the entry it popped
C18_Witness ==
    /\ last.op = "cancelled"
    /\ WaitingOut
    /\ ntasks >= 2
    /\ Len(announced) >= 2

\* C19: the wait of the process for its current entry ends when the clock
\* reaches that entry's deadline and never later, however long room.send took:
\* a sleeping process resumes no later than playing_until.
C19_WaitEndsAtDeadline ==
    \A t \in TaskIds :
        (tasks[t].pc = "sleep" /\ playing_until # None) =>
            WakeTime(t) <= Val(playing_until)

\* the processes launched that have not taken their first step
NotStarted == {t \in TaskIds : tasks[t].pc = "start"}

\* C20: every skip() called with entries pending consumes one entry from the
\* front, also when it comes before the process launched by the skip before it
\* has taken its first step.  With callers that only append and skip, one
\* process is launched per such skip: after a skip() called with two or more
\* entries pending while the process of the skip before has not taken its first
\* step, every process launched has popped and announced an entry, except the
\* one just launched.
C20_EverySkipConsumesOne ==
    [][(last'.op = "skip" /\ Len(waiting) >= 2 /\ NotStarted # {}) =>
         (Len(announced') + Cardinality(NotStarted') >= ntasks')]_vars

\* C21: when the handler of !skip (nothing pending), !videoskip or
\* !dramaticskip has inserted its filler while an entry was in now_playing and
\* calls skip() after its reply, the filler is still at the front of pending,
\* so that it is the entry the skip makes now_playing, and the entry the skip
\* abandons is the one that was in now_playing when the filler was inserted,
\* whatever the process did during the reply.
C21_FillerPlaysNext ==
    [][(last'.op = "replied" /\ handler.filler # 0 /\ handler.was # None) =>
         /\ waiting # <<>>
         /\ Head(waiting).id = handler.filler
         /\ playing_video = handler.was]_vars

=============================================================================
